---- MODULE Spec2Model ----
(***************************************************************************)
(* Verification model of the API Gateway test-invoke http.RoundTripper     *)
(* (package transport): the once-guarded resource mapping, the endpoint    *)
(* resolution and the request/response translation.                       *)
(*                                                                         *)
(* Go strings are sequences of one-character strings, so that quoting,     *)
(* pattern compilation, splitting and matching are computed as the code    *)
(* computes them.  Error messages are sequences of text fragments; an      *)
(* error value is [msg, is]: its message and the set of sentinel errors    *)
(* errors.Is reports it to match.                                          *)
(***************************************************************************)
EXTENDS Integers, Sequences, FiniteSets, TLC

(***************************************************************************)
(* Bounds of the model.                                                    *)
(***************************************************************************)
NumCallers == 2
MaxRoundTrips == 2

Callers == 1..NumCallers

(***************************************************************************)
(* Strings.                                                                *)
(***************************************************************************)
GET == <<"G", "E", "T">>
PUT == <<"P", "U", "T">>
POST == <<"P", "O", "S", "T">>
DELETE == <<"D", "E", "L">>

Drop(s, n) == IF n >= Len(s) THEN <<>> ELSE SubSeq(s, n + 1, Len(s))

\* strings.Contains(s, sub)
Contains(s, sub) ==
  \E i \in 0..Len(s) :
    /\ i + Len(sub) <= Len(s)
    /\ SubSeq(s, i + 1, i + Len(sub)) = sub

\* strings.Split(s, sep) for a one-character separator
RECURSIVE SplitFrom(_, _, _)
SplitFrom(s, sep, cur) ==
  IF s = <<>> THEN <<cur>>
  ELSE IF Head(s) = sep THEN <<cur>> \o SplitFrom(Tail(s), sep, <<>>)
  ELSE SplitFrom(Tail(s), sep, Append(cur, Head(s)))

Split(s, sep) == SplitFrom(s, sep, <<>>)

\* strings.Join(parts, sep)
RECURSIVE Join(_, _)
Join(parts, sep) ==
  IF parts = <<>> THEN <<>>
  ELSE IF Len(parts) = 1 THEN parts[1]
  ELSE parts[1] \o <<sep>> \o Join(Tail(parts), sep)

(***************************************************************************)
(* mapping.go: keys, pattern compilation, matching.                        *)
(***************************************************************************)
\* fmt.Sprintf("%s#%s", method, path)
endpointKey(method, path) == method \o <<"#">> \o path

\* the characters regexp.QuoteMeta escapes
SpecialChars ==
  {"\\", ".", "+", "*", "?", "(", ")", "|", "[", "]", "{", "}", "^", "$"}

RECURSIVE QuoteMeta(_)
QuoteMeta(s) ==
  IF s = <<>> THEN <<>>
  ELSE (IF Head(s) \in SpecialChars THEN <<"\\", Head(s)>> ELSE <<Head(s)>>)
       \o QuoteMeta(Tail(s))

\* the replacement text `([^/]+)`
GroupText == <<"(", "[", "^", "/", "]", "+", ")">>

\* Ends of the matches of `\\{[^/]+\}` that start at position i of s: a
\* backslash, an opening brace, one or more characters other than a slash,
\* a closing brace.
PlaceholderEnds(s, i) ==
  IF i + 1 <= Len(s) /\ s[i] = "\\" /\ s[i + 1] = "{"
  THEN {j \in (i + 3)..Len(s) :
          /\ s[j] = "}"
          /\ \A k \in (i + 2)..(j - 1) : s[k] # "/"}
  ELSE {}

MaxOf(S) == CHOOSE m \in S : \A n \in S : n <= m

\* regexp.MustCompile(`\\{[^/]+\}`).ReplaceAllString(s, `([^/]+)`): leftmost
\* matches, each as long as the greedy `+` allows, never overlapping.
RECURSIVE ReplacePlaceholdersFrom(_, _)
ReplacePlaceholdersFrom(s, i) ==
  IF i > Len(s) THEN <<>>
  ELSE IF PlaceholderEnds(s, i) # {}
       THEN GroupText \o ReplacePlaceholdersFrom(s, MaxOf(PlaceholderEnds(s, i)) + 1)
       ELSE <<s[i]>> \o ReplacePlaceholdersFrom(s, i + 1)

ReplacePlaceholders(s) == ReplacePlaceholdersFrom(s, 1)

\* the pattern text resourceRegex hands to regexp.Compile
resourcePattern(key) == <<"^">> \o ReplacePlaceholders(QuoteMeta(key)) \o <<"$">>

\* The token a compiled group stands for; every other token is a literal
\* character.
GroupToken == "([^/]+)"
BadToken == "<bad>"

\* regexp.Compile on the pattern's inner text: an escaped character is a
\* literal, `([^/]+)` is a group, any other unescaped special character is
\* outside what resourceRegex can produce and is reported as an error.
RECURSIVE ParseFrom(_, _)
ParseFrom(p, i) ==
  IF i > Len(p) THEN <<>>
  ELSE IF p[i] = "\\"
       THEN IF i + 1 <= Len(p)
            THEN <<p[i + 1]>> \o ParseFrom(p, i + 2)
            ELSE <<BadToken>>
  ELSE IF i + 6 <= Len(p) /\ SubSeq(p, i, i + 6) = GroupText
       THEN <<GroupToken>> \o ParseFrom(p, i + 7)
  ELSE IF p[i] \in SpecialChars
       THEN <<BadToken>>
  ELSE <<p[i]>> \o ParseFrom(p, i + 1)

Anchored(p) == Len(p) >= 2 /\ p[1] = "^" /\ p[Len(p)] = "$"

Tokens(p) == ParseFrom(SubSeq(p, 2, Len(p) - 1), 1)

CompileOK(p) ==
  /\ Anchored(p)
  /\ \A i \in 1..Len(Tokens(p)) : Tokens(p)[i] # BadToken

\* a matcher whose group also runs across slashes, as `(.+)` would
RECURSIVE MatchTokensAcrossSlash(_, _)
MatchTokensAcrossSlash(toks, s) ==
  IF toks = <<>> THEN s = <<>>
  ELSE IF Head(toks) = "([^/]+)"
       THEN \E k \in 1..Len(s) :
              MatchTokensAcrossSlash(Tail(toks),
                                     IF k >= Len(s) THEN <<>> ELSE SubSeq(s, k + 1, Len(s)))
  ELSE /\ s # <<>>
       /\ Head(s) = Head(toks)
       /\ MatchTokensAcrossSlash(Tail(toks), Tail(s))

\* r.regex.MatchString(s) for an anchored pattern in token form
RECURSIVE MatchTokens(_, _)
MatchTokens(toks, s) ==
  IF toks = <<>> THEN s = <<>>
  ELSE IF Head(toks) = GroupToken
       THEN \E k \in 1..Len(s) :
              /\ \A i \in 1..k : s[i] # "/"
              /\ MatchTokens(Tail(toks), Drop(s, k))
  ELSE /\ s # <<>>
       /\ Head(s) = Head(toks)
       /\ MatchTokens(Tail(toks), Tail(s))

MatchString(regex, s) == MatchTokens(Tokens(regex), s)

(***************************************************************************)
(* Values: errors, optional strings, headers.                              *)
(***************************************************************************)
NilErr == [nil |-> TRUE, msg |-> <<>>, is |-> {}]

\* errors.New(text)
errorsNew(text) == [nil |-> FALSE, msg |-> <<text>>, is |-> {text}]

\* fmt.Errorf(prefix + "%w", e): the message is prefixed, e stays matchable
ErrorfWrap(prefix, e) == [nil |-> FALSE, msg |-> <<prefix>> \o e.msg, is |-> e.is]

\* fmt.Errorf with %s / %v verbs only: a new error that wraps nothing
ErrorfText(msg) == [nil |-> FALSE, msg |-> msg, is |-> {}]

\* errors.Is(e, target) for a sentinel target
ErrorsIs(e, target) == ~e.nil /\ target.is \subseteq e.is /\ target.is # {}

ErrResourceNotFound == errorsNew("resource not found")

\* *string
NilStr == [set |-> FALSE, val |-> <<>>]
StrPtr(s) == [set |-> TRUE, val |-> s]

\* http.Header / map[string][]string; a nil map and an empty map differ
NilHeader == [nil |-> TRUE, vals |-> {}]
EmptyHeader == [nil |-> FALSE, vals |-> {}]
JsonHeader == [nil |-> FALSE, vals |-> {<<"Content-Type", "application/json">>}]

(***************************************************************************)
(* The API the transport is built for, and the provider's replies.         *)
(***************************************************************************)
ApiID == <<"i", "d">>
Region == <<"r", "1">>

\* fmt.Sprintf("%s.execute-api.%s.amazonaws.com", apiID, c.Options().Region)
invokeURLHost(apiID, region) ==
  apiID \o <<".execute-api.">> \o region \o <<".amazonaws.com">>

CustomHost == <<"c", ".com">>

PathRoot == <<"/">>
PathU == <<"/", "u">>
PathUTpl == <<"/", "u", "/", "{", "v", "}">>
PathWTpl == <<"/", "{", "w", "}", "/", "x">>
PathUX == <<"/", "u", "/", "x">>
PathStageUX == <<"/", "s", "/", "u", "/", "x">>
PathP == <<"/", "p">>

\* types.Resource: Id, Path, ResourceMethods
Res(id, path, methods) == [id |-> id, path |-> path, methods |-> methods]

\* the shape of the resource tree of the tests: a root and a collection
\* without/with methods, and a templated member
ItemsPlain ==
  << Res(<<"root">>, PathRoot, {}),
     Res(<<"coll">>, PathU, {PUT, POST}),
     Res(<<"item">>, PathUTpl, {GET, DELETE}) >>

\* two templates that accept the same concrete path
ItemsOverlap ==
  << Res(<<"item">>, PathUTpl, {GET}),
     Res(<<"wild">>, PathWTpl, {GET, PUT}) >>

GetResourcesErr == errorsNew("something went wrong")

\* what GetResources can return: (output, nil) or (nil, error)
GetResourcesReplies ==
  { [items |-> ItemsPlain, err |-> NilErr],
    [items |-> ItemsOverlap, err |-> NilErr],
    [items |-> <<>>, err |-> GetResourcesErr] }

InvokeErr == errorsNew("invoke failed")

\* apigateway.TestInvokeMethodOutput: Status, MultiValueHeaders, Body
Out(status, hdr, body) == [status |-> status, hdr |-> hdr, body |-> body]
NoOut == Out(0, NilHeader, NilStr)

\* what TestInvokeMethod can return: (output, nil) or (nil, error)
TestInvokeReplies ==
  { [out |-> Out(200, JsonHeader, StrPtr(<<"o", "k">>)), err |-> NilErr],
    [out |-> Out(204, NilHeader, StrPtr(<<>>)), err |-> NilErr],
    [out |-> Out(200, EmptyHeader, NilStr), err |-> NilErr],
    [out |-> NoOut, err |-> InvokeErr] }

(***************************************************************************)
(* Requests.                                                               *)
(***************************************************************************)
\* r.Body: nil, http.NoBody, or a reader yielding text
BodyNil == [kind |-> "nil", text |-> <<>>]
BodyNoBody == [kind |-> "NoBody", text |-> <<>>]
BodyOf(text) == [kind |-> "reader", text |-> text]
\* a reader whose Read returns an error
BodyBroken == [kind |-> "broken", text |-> <<>>]

Req(method, host, path, rawQuery, body, proto) ==
  [method |-> method, host |-> host, path |-> path, rawQuery |-> rawQuery,
   body |-> body, hdr |-> JsonHeader, proto |-> proto]

QueryKV == <<"k", "=", "v">>

Requests ==
  LET inv == invokeURLHost(ApiID, Region)
      b == BodyOf(<<"{", "}">>)
  IN { Req(GET, CustomHost, PathUX, <<>>, BodyNoBody, "HTTP/1.1"),
       Req(GET, CustomHost, PathUX, <<>>, b, "HTTP/1.1"),
       Req(GET, inv, PathStageUX, QueryKV, b, "HTTP/2.0"),
       Req(PUT, CustomHost, PathU, <<>>, b, "HTTP/1.1"),
       Req(PUT, CustomHost, PathU, QueryKV, BodyNil, "HTTP/1.1"),
       Req(PUT, CustomHost, PathU, <<>>, BodyBroken, "HTTP/1.1"),
       Req(POST, CustomHost, PathUX, <<>>, b, "HTTP/1.1"),
       Req(GET, CustomHost, PathP, <<>>, b, "HTTP/1.1") }

(***************************************************************************)
(* mapping.go: the mapping table.                                          *)
(***************************************************************************)
\* resourceMapping{} (a nil map reads the same way)
EmptyMapping == <<>>

\* an insertion that leaves a key that is already present as it is
MapPutKeepFirst(m, k, v) ==
  IF k \in DOMAIN m THEN m
  ELSE [x \in (DOMAIN m) \cup {k} |-> IF x = k THEN v ELSE m[x]]

MapPut(m, k, v) == [x \in (DOMAIN m) \cup {k} |-> IF x = k THEN v ELSE m[x]]

\* resourceRegex(key): the compiled pattern, or the compile error
resourceRegex(key) ==
  IF CompileOK(resourcePattern(key))
  THEN [regex |-> resourcePattern(key), err |-> NilErr]
  ELSE [regex |-> <<>>,
        err |-> ErrorfWrap("could not compile resource regex: ",
                           errorsNew("error parsing regexp"))]

\* mappings.add(r, method): the table after the call, and its error
add(mappings, r, method) ==
  LET key == endpointKey(method, r.path)
      compiled == resourceRegex(key)
  IN IF ~compiled.err.nil
     THEN [mapping |-> mappings, err |-> compiled.err]
     ELSE [mapping |-> MapPut(mappings, key,
                              [id |-> r.id, regex |-> compiled.regex]),
           err |-> NilErr]

\* for method := range res.ResourceMethods { mapping.add(res, method) }:
\* the methods of one resource give distinct keys, so their order is free
RECURSIVE addMethods(_, _, _)
addMethods(mappings, r, methods) ==
  IF methods = {} THEN [mapping |-> mappings, err |-> NilErr]
  ELSE LET m == CHOOSE x \in methods : TRUE
           one == add(mappings, r, m)
       IN IF ~one.err.nil THEN one
          ELSE addMethods(one.mapping, r, methods \ {m})

\* for _, res := range resources.Items { ... }
RECURSIVE addItems(_, _)
addItems(mappings, items) ==
  IF items = <<>> THEN [mapping |-> mappings, err |-> NilErr]
  ELSE LET one == addMethods(mappings, Head(items), Head(items).methods)
       IN IF ~one.err.nil THEN one
          ELSE addItems(one.mapping, Tail(items))

\* a variant that hands the provider's error on without context
mapEndpointResourcesUnwrapped(reply) ==
  IF ~reply.err.nil
  THEN [mapping |-> EmptyMapping, err |-> reply.err]
  ELSE addItems(EmptyMapping, reply.items)

\* mapEndpointResources(cli, apiID), given what GetResources returned
mapEndpointResources(reply) ==
  IF ~reply.err.nil
  THEN [mapping |-> EmptyMapping,
        err |-> ErrorfWrap("get resources error: ", reply.err)]
  ELSE LET built == addItems(EmptyMapping, reply.items)
       IN IF ~built.err.nil
          THEN [mapping |-> EmptyMapping, err |-> built.err]
          ELSE built

\* mapEndpointResources for each reply GetResources can give
BuiltFrom == [reply \in GetResourcesReplies |-> mapEndpointResources(reply)]

\* a Mappings() that leaves the pattern out of the values
MappingsResultIdOnly(m) == [k \in DOMAIN m |-> m[k].id]

\* t.Mappings(): key -> fmt.Sprintf("%s->%s", r.id, r.regex.String())
MappingsResult(m) == [k \in DOMAIN m |-> m[k].id \o <<"->">> \o m[k].regex]

NotFound == [id |-> <<>>, found |-> FALSE]

\* a lookup that goes straight to the patterns, without the exact key first
matchResourceIDPatternsOnly(mappings, method, path) ==
  LET key == method \o <<"#">> \o path
      hits == {k \in DOMAIN mappings : MatchString(mappings[k].regex, key)}
  IN IF hits = {} THEN {[id |-> <<>>, found |-> FALSE]}
     ELSE {[id |-> mappings[k].id, found |-> TRUE] : k \in hits}

\* a lookup over a map with a fixed iteration order: of several accepting
\* entries always the same one is returned
matchResourceIDFixedOrder(mappings, method, path) ==
  LET key == method \o <<"#">> \o path
      hits == {k \in DOMAIN mappings : MatchString(mappings[k].regex, key)}
  IN IF key \in DOMAIN mappings
     THEN {[id |-> mappings[key].id, found |-> TRUE]}
     ELSE IF hits = {} THEN {[id |-> <<>>, found |-> FALSE]}
     ELSE {[id |-> mappings[CHOOSE k \in hits : TRUE].id, found |-> TRUE]}

\* a lookup that only tries the exact key and never the patterns
matchResourceIDExactOnly(mappings, method, path) ==
  IF (method \o <<"#">> \o path) \in DOMAIN mappings
  THEN {[id |-> mappings[method \o <<"#">> \o path].id, found |-> TRUE]}
  ELSE {[id |-> <<>>, found |-> FALSE]}

\* mappings.matchResourceID(method, path): every (id, found) the call can
\* return; the range over the map visits the entries in any order
matchResourceID(mappings, method, path) ==
  LET key == endpointKey(method, path)
      hits == {k \in DOMAIN mappings : MatchString(mappings[k].regex, key)}
  IN IF key \in DOMAIN mappings
     THEN {[id |-> mappings[key].id, found |-> TRUE]}
     ELSE IF hits = {} THEN {NotFound}
     ELSE {[id |-> mappings[k].id, found |-> TRUE] : k \in hits}

(***************************************************************************)
(* The transport: path normalisation and the translators.                  *)
(***************************************************************************)
\* strings.Contains(requestURL.Host, invokeHost)
isInvokeURL(host, invokeHost) == Contains(host, invokeHost)

\* a removeStagePathPart that joins split[1:] and so removes nothing
removeStagePathPartOffByOne(path) ==
  LET split == Split(path, "/")
  IN IF Len(split) > 1 THEN <<"/">> \o Join(Drop(split, 1), "/") ELSE path

removeStagePathPart(path) ==
  LET split == Split(path, "/")
  IN IF Len(split) > 1 THEN <<"/">> \o Join(Drop(split, 2), "/") ELSE path

\* a lookup path that carries the query string along
effectivePathWithQuery(r) ==
  (IF Contains(r.host, ApiID \o <<".execute-api.">> \o Region \o <<".amazonaws.com">>)
   THEN LET split == Split(r.path, "/")
        IN IF Len(split) > 1 THEN <<"/">> \o Join(Drop(split, 2), "/") ELSE r.path
   ELSE r.path)
  \o (IF r.rawQuery # <<>> THEN <<"?">> \o r.rawQuery ELSE <<>>)

\* the path RoundTrip looks up and sends
effectivePath(r) ==
  IF isInvokeURL(r.host, invokeURLHost(ApiID, Region))
  THEN removeStagePathPart(r.path)
  ELSE r.path

\* len(r.URL.Query()) > 0: url.ParseQuery keeps the "&"-separated parts
\* that are not empty and hold no semicolon
QueryHasValues(rawQuery) ==
  \E i \in 1..Len(Split(rawQuery, "&")) :
    LET part == Split(rawQuery, "&")[i]
    IN part # <<>> /\ \A j \in 1..Len(part) : part[j] # ";"

\* url.URL.EscapedPath for the characters of the model
RECURSIVE EscapedPath(_)
EscapedPath(path) ==
  IF path = <<>> THEN <<>>
  ELSE (IF Head(path) = "{" THEN <<"%7B">>
        ELSE IF Head(path) = "}" THEN <<"%7D">>
        ELSE <<Head(path)>>) \o EscapedPath(Tail(path))

\* r.URL.RequestURI()
RequestURI(r) ==
  (IF r.path = <<>> THEN <<"/">> ELSE EscapedPath(r.path))
  \o (IF r.rawQuery # <<>> THEN <<"?">> \o r.rawQuery ELSE <<>>)

ReadErr == errorsNew("unexpected EOF")

NoInput ==
  [set |-> FALSE, HttpMethod |-> <<>>, ResourceId |-> <<>>, RestApiId |-> <<>>,
   Body |-> NilStr, MultiValueHeaders |-> NilHeader, PathWithQueryString |-> <<>>]

\* createInvokeInput that drops the error of io.ReadAll and sends what was read
createInvokeInputIgnoringReadError(r, apiID, resourceID, path) ==
  [input |->
     [set |-> TRUE,
      HttpMethod |-> r.method,
      ResourceId |-> resourceID,
      RestApiId |-> apiID,
      Body |-> IF r.body.kind \notin {"nil", "NoBody"}
               THEN StrPtr(r.body.text) ELSE NilStr,
      MultiValueHeaders |-> r.hdr,
      PathWithQueryString |->
        IF QueryHasValues(r.rawQuery)
        THEN path \o <<"?">> \o r.rawQuery ELSE path],
   err |-> NilErr]

\* createInvokeInput with the two identifiers handed to the wrong fields
createInvokeInputSwapped(r, apiID, resourceID, path) ==
  IF r.body.kind = "broken"
  THEN [input |-> NoInput, err |-> ErrorfWrap("read request body error: ", ReadErr)]
  ELSE [input |->
          [set |-> TRUE,
           HttpMethod |-> r.method,
           ResourceId |-> apiID,
           RestApiId |-> resourceID,
           Body |-> IF r.body.kind \notin {"nil", "NoBody"}
                    THEN StrPtr(r.body.text) ELSE NilStr,
           MultiValueHeaders |-> r.hdr,
           PathWithQueryString |->
             IF QueryHasValues(r.rawQuery)
             THEN path \o <<"?">> \o r.rawQuery ELSE path],
        err |-> NilErr]

\* createInvokeInput(r, apiID, resourceID, path): (input, error)
createInvokeInput(r, apiID, resourceID, path) ==
  IF r.body.kind = "broken"
  THEN [input |-> NoInput, err |-> ErrorfWrap("read request body error: ", ReadErr)]
  ELSE [input |->
          [set |-> TRUE,
           HttpMethod |-> r.method,
           ResourceId |-> resourceID,
           RestApiId |-> apiID,
           Body |-> IF r.body.kind \notin {"nil", "NoBody"}
                    THEN StrPtr(r.body.text) ELSE NilStr,
           MultiValueHeaders |-> r.hdr,
           PathWithQueryString |->
             IF QueryHasValues(r.rawQuery)
             THEN path \o <<"?">> \o r.rawQuery ELSE path],
        err |-> NilErr]

\* invokeInputLogGroup(i) evaluates *i.Body: TRUE when it returns the
\* attribute group, FALSE when the nil dereference panics
invokeInputLogGroup(i) == i.Body.set

\* invokeOutputLogGroup(o) evaluates *o.Body
invokeOutputLogGroup(o) == o.body.set

\* http.StatusText for the statuses of the model
StatusText(status) ==
  IF status = 200 THEN "OK" ELSE IF status = 204 THEN "No Content" ELSE ""

NoResp ==
  [nil |-> TRUE, Status |-> "", StatusCode |-> 0, Proto |-> "",
   Header |-> NilHeader, Body |-> <<>>, ContentLength |-> 0]

\* createHTTPResponse that leaves the length of an empty body unset (-1) and
\* answers with a fixed protocol version
createHTTPResponseLoose(r, out) ==
  [nil |-> FALSE,
   Status |-> StatusText(out.status),
   StatusCode |-> out.status,
   Proto |-> "HTTP/1.1",
   Header |-> out.hdr,
   Body |-> out.body.val,
   ContentLength |-> IF out.body.val = <<>> THEN -1 ELSE Len(out.body.val)]

\* createHTTPResponse(r, out), for an output whose Body is set
createHTTPResponse(r, out) ==
  [nil |-> FALSE,
   Status |-> StatusText(out.status),
   StatusCode |-> out.status,
   Proto |-> r.proto,
   Header |-> out.hdr,
   Body |-> out.body.val,
   ContentLength |-> Len(out.body.val)]

(***************************************************************************)
(* sync.Once, as initMappings uses it.                                     *)
(***************************************************************************)
\* a Once without its guard: every Do runs f
OnceRunsAlways(o) == TRUE

\* a Once without its mutex: every Do that finds f unfinished runs f
OnceRunsUnlocked(o) == o # "done"

\* once.Do(f) runs f in the caller that finds the Once unused
OnceRuns(o) == o = "new"

\* a Once that lets callers through while f is still running
OnceNeverBlocks(o) == FALSE

\* once.Do(f) blocks a caller that arrives while f is running
OnceBlocks(o) == o = "running"

(***************************************************************************)
(* RoundTrip's error values.                                               *)
(***************************************************************************)
\* fmt.Errorf("%s for path %s", ErrResourceNotFound, r.URL.RequestURI())
notFoundError(r) ==
  ErrorfText(ErrResourceNotFound.msg \o <<" for path ">> \o RequestURI(r))

\* an invoke error reported by its text only
invokeErrorText(e) == ErrorfText(<<"invoke error: ">> \o e.msg)

\* fmt.Errorf("invoke error: %w", invokeErr)
invokeError(e) == ErrorfWrap("invoke error: ", e)

\* fmt.Errorf("init mappings error: %w", err)
initMappingsError(e) == ErrorfWrap("init mappings error: ", e)

(***************************************************************************)
(* State.                                                                  *)
(***************************************************************************)
VARIABLES
  ctor,      \* which constructor ran, whether it returned a transport, its error
  once,      \* t.once: "new", "running" (f in progress) or "done"
  mapping,   \* t.mapping
  initErr,   \* t.initErr
  g,         \* the goroutines calling RoundTrip: position and locals
  fetched,   \* the replies GetResources has returned, in order
  calls,     \* tallies of the operations started and finished
  probe      \* a function of the package applied on its own: inputs, result

vars == <<ctor, once, mapping, initErr, g, fetched, calls, probe>>

NoReq == Req(<<>>, <<>>, <<>>, <<>>, BodyNil, "")
NoReply == [out |-> NoOut, err |-> NilErr]
NoRet == [kind |-> "none", resp |-> NoResp, err |-> NilErr, site |-> ""]

RetResponse(resp) == [kind |-> "response", resp |-> resp, err |-> NilErr, site |-> ""]
RetError(e) == [kind |-> "error", resp |-> NoResp, err |-> e, site |-> ""]
RetPanic(site) == [kind |-> "panic", resp |-> NoResp, err |-> NilErr, site |-> site]

NotSeen == [called |-> FALSE, built |-> FALSE, synced |-> FALSE, result |-> <<>>]

NoProbe == [fn |-> "none"]

\* the locals of a RoundTrip call that has not started
Fresh ==
  [pc |-> "idle", req |-> NoReq, err |-> NilErr, lookup |-> "none",
   resourceID |-> <<>>, input |-> NoInput, invokes |-> 0,
   replied |-> FALSE, reply |-> NoReply, ret |-> NoRet, dump |-> NotSeen]

Init ==
  /\ ctor = [kind |-> "none", t |-> FALSE, err |-> NilErr]
  /\ once = "new"
  /\ mapping = EmptyMapping
  /\ initErr = NilErr
  /\ g = [c \in Callers |-> Fresh]
  /\ fetched = <<>>
  /\ calls = [roundTrip |-> 0, getResources |-> 0, testInvoke |-> 0,
              returned |-> 0, responses |-> 0, invokeFailed |-> 0,
              mappings |-> 0]
  /\ probe = NoProbe

\* the calls the goroutines have made on the transport so far; the model
\* stops them at MaxRoundTrips
Started == calls.roundTrip + calls.mappings

(***************************************************************************)
(* Constructors.                                                           *)
(***************************************************************************)
NewTransport ==
  /\ ctor.kind = "none"
  /\ ctor' = [kind |-> "NewTransport", t |-> TRUE, err |-> NilErr]
  /\ UNCHANGED <<once, mapping, initErr, g, fetched, calls, probe>>

\* NewTransport, then initMappings before the transport is handed out
NewInitializedTransport(reply) ==
  /\ ctor.kind = "none"
  /\ OnceRuns(once)
  /\ LET built == BuiltFrom[reply]
     IN /\ mapping' = built.mapping
        /\ initErr' = built.err
        /\ ctor' = IF ~built.err.nil
                   THEN [kind |-> "NewInitializedTransport", t |-> FALSE,
                         err |-> initMappingsError(built.err)]
                   ELSE [kind |-> "NewInitializedTransport", t |-> TRUE,
                         err |-> NilErr]
  /\ once' = "done"
  /\ fetched' = Append(fetched, reply)
  /\ calls' = [calls EXCEPT !.getResources = @ + 1]
  /\ UNCHANGED <<g, probe>>

\* A nil dereference inside RoundTrip is a panic nothing recovers from: it
\* ends the process, and with it every goroutine.
Crashed == \E c \in Callers : g[c].ret.kind = "panic"

(***************************************************************************)
(* RoundTrip, step by step.                                                *)
(***************************************************************************)
\* a goroutine calls t.RoundTrip(r)
RoundTrip(c, r) ==
  /\ ~Crashed
  /\ ctor.t
  /\ g[c].pc = "idle"
  /\ Started < MaxRoundTrips
  /\ g' = [g EXCEPT ![c] = [Fresh EXCEPT !.pc = "initMappings", !.req = r]]
  /\ calls' = [calls EXCEPT !.roundTrip = @ + 1]
  /\ UNCHANGED <<ctor, once, mapping, initErr, fetched, probe>>

\* t.once.Do: start f and call GetResources, or wait, or return t.initErr
OnceDo(c) ==
  /\ ~Crashed
  /\ g[c].pc = "initMappings"
  /\ IF OnceRuns(once)
     THEN /\ once' = "running"
          /\ calls' = [calls EXCEPT !.getResources = @ + 1]
          /\ g' = [g EXCEPT ![c].pc = "fetching"]
     ELSE /\ ~OnceBlocks(once)
          /\ g' = [g EXCEPT ![c].pc = "ready", ![c].err = initErr]
          /\ UNCHANGED <<once, calls>>
  /\ UNCHANGED <<ctor, mapping, initErr, fetched, probe>>

\* GetResources returns; f builds the table and assigns t.mapping, t.initErr
GetResourcesReturn(c, reply) ==
  /\ ~Crashed
  /\ g[c].pc = "fetching"
  /\ LET built == BuiltFrom[reply]
     IN /\ mapping' = built.mapping
        /\ initErr' = built.err
  /\ fetched' = Append(fetched, reply)
  /\ g' = [g EXCEPT ![c].pc = "published"]
  /\ UNCHANGED <<ctor, once, calls, probe>>

\* f has returned: the Once is done, Do returns, initMappings reads t.initErr
OnceDone(c) ==
  /\ ~Crashed
  /\ g[c].pc = "published"
  /\ once' = "done"
  /\ g' = [g EXCEPT ![c].pc = "ready", ![c].err = initErr]
  /\ UNCHANGED <<ctor, mapping, initErr, fetched, calls, probe>>

Return(c, ret, locals) ==
  /\ g' = [g EXCEPT ![c] = [locals EXCEPT !.pc = "idle", !.ret = ret]]
  /\ calls' = [calls EXCEPT
                 !.returned = @ + 1,
                 !.responses = @ + (IF ret.kind = "response" THEN 1 ELSE 0),
                 !.invokeFailed = @ + (IF locals.replied /\ ret.kind # "response"
                                       THEN 1 ELSE 0)]

\* t.mapping.matchResourceID(r.Method, path) for every table the build can
\* leave in t.mapping and every request
ResolvedOn ==
  [m \in {BuiltFrom[reply].mapping : reply \in GetResourcesReplies}, r \in Requests |->
     matchResourceID(m, r.method, effectivePath(r))]

\* RoundTrip from the check of initMappings' error up to the invoke call
RoundTripResolve(c) ==
  /\ ~Crashed
  /\ g[c].pc = "ready"
  /\ LET r == g[c].req
         path == effectivePath(r)
     IN IF ~g[c].err.nil
        THEN Return(c, RetError(g[c].err), g[c])
        ELSE \E m \in ResolvedOn[mapping, r] :
          IF ~m.found
          THEN Return(c, RetError(notFoundError(r)), [g[c] EXCEPT !.lookup = "miss"])
          ELSE LET made == createInvokeInput(r, ApiID, m.id, path)
                   hit == [g[c] EXCEPT !.lookup = "hit", !.resourceID = m.id]
               IN IF ~made.err.nil
                  THEN Return(c, RetError(ErrorfWrap("create invoke input error: ",
                                                     made.err)), hit)
                  ELSE IF ~invokeInputLogGroup(made.input)
                  THEN Return(c, RetPanic("invokeInputLogGroup"), hit)
                  ELSE /\ g' = [g EXCEPT ![c] = [hit EXCEPT !.pc = "invoking",
                                                           !.input = made.input,
                                                           !.invokes = @ + 1]]
                       /\ calls' = [calls EXCEPT !.testInvoke = @ + 1]
  /\ UNCHANGED <<ctor, once, mapping, initErr, fetched, probe>>

\* TestInvokeMethod returns; RoundTrip wraps the error or builds the response
TestInvokeReturn(c, reply) ==
  /\ ~Crashed
  /\ g[c].pc = "invoking"
  /\ LET got == [g[c] EXCEPT !.replied = TRUE, !.reply = reply]
     IN IF ~reply.err.nil
        THEN Return(c, RetError(invokeError(reply.err)), got)
        ELSE IF ~invokeOutputLogGroup(reply.out)
        THEN Return(c, RetPanic("invokeOutputLogGroup"), got)
        ELSE Return(c, RetResponse(createHTTPResponse(g[c].req, reply.out)), got)
  /\ UNCHANGED <<ctor, once, mapping, initErr, fetched, probe>>

\* The goroutine's read of t.mapping is ordered after the write in the once
\* function: it got the transport from NewInitializedTransport, or one of
\* its own RoundTrip calls has returned from t.once.Do.
Synced(c) ==
  \/ ctor.kind = "NewInitializedTransport"
  \/ g[c].ret.kind # "none"
  \/ g[c].dump.synced

\* What a read of the map can find.  Ordered after the write, the map as
\* written.  Otherwise the read races with the write of t.mapping and with
\* the insertions before it: it finds the nil map, or the new map with any
\* part of its entries visible.
Views(c) ==
  IF Synced(c) THEN {mapping}
  ELSE {[k \in keys |-> mapping[k]] : keys \in SUBSET DOMAIN mapping}

\* a goroutine that is not inside RoundTrip calls t.Mappings(): a read of
\* t.mapping that takes no part in the Once; built tells whether the
\* one-time build had succeeded before the call, in the order the calling
\* goroutine can rely on
Mappings(c) ==
  /\ ~Crashed
  /\ ctor.t
  /\ g[c].pc = "idle"
  /\ Started < MaxRoundTrips
  /\ \E view \in Views(c) :
       g' = [g EXCEPT ![c] =
               [Fresh EXCEPT !.dump = [called |-> TRUE,
                                       built |-> (/\ once = "done"
                                                  /\ initErr.nil
                                                  /\ Synced(c)),
                                       synced |-> Synced(c),
                                       result |-> MappingsResult(view)]]]
  /\ calls' = [calls EXCEPT !.mappings = @ + 1]
  /\ UNCHANGED <<ctor, once, mapping, initErr, fetched, probe>>

Next ==
  \/ NewTransport
  \/ \E reply \in GetResourcesReplies : NewInitializedTransport(reply)
  \/ \E c \in Callers, r \in Requests : RoundTrip(c, r)
  \/ \E c \in Callers : OnceDo(c)
  \/ \E c \in Callers, reply \in GetResourcesReplies : GetResourcesReturn(c, reply)
  \/ \E c \in Callers : OnceDone(c)
  \/ \E c \in Callers : RoundTripResolve(c)
  \/ \E c \in Callers, reply \in TestInvokeReplies : TestInvokeReturn(c, reply)
  \/ \E c \in Callers : Mappings(c)

Spec == Init /\ [][Next]_vars

\* The same transport under a fair scheduler and a provider that answers:
\* a goroutine inside RoundTrip takes its next step, and every GetResources
\* and TestInvokeMethod call returns.
Fairness ==
  \A c \in Callers :
    /\ WF_vars(OnceDo(c))
    /\ WF_vars(\E reply \in GetResourcesReplies : GetResourcesReturn(c, reply))
    /\ WF_vars(OnceDone(c))
    /\ WF_vars(RoundTripResolve(c))
    /\ WF_vars(\E reply \in TestInvokeReplies : TestInvokeReturn(c, reply))

SpecLive == Init /\ [][Next]_vars /\ Fairness

(***************************************************************************)
(* The functions of the package applied on their own: resolution of a      *)
(* (method, path) against a built table, the routing of one request (path  *)
(* normalisation, lookup, path-with-query), and one compiled matcher       *)
(* against one lookup key.  The inputs are drawn in the initial state.     *)
(***************************************************************************)
MaxPathLen == 4

PathChars == {"/", "u", "x", "."}

\* every string over PathChars of at most MaxPathLen characters
Paths == UNION {[1..n -> PathChars] : n \in 0..MaxPathLen}

\* r.URL.Path of a request: empty, or starting with a slash
RequestPaths == {p \in Paths : p = <<>> \/ p[1] = "/"}

Methods == {GET, PUT, POST, DELETE}

PathDot == <<"/", "u", ".", "x">>
PathTwoTpl == <<"/", "{", "v", "}", "/", "{", "w", "}">>
PathPlusTpl == <<"/", "{", "p", "+", "}">>

\* path templates as API Gateway forms them: every segment is a literal or
\* a {name} placeholder
Templates == {PathRoot, PathU, PathUTpl, PathWTpl, PathDot, PathTwoTpl, PathPlusTpl}

\* hosts a request can carry: a custom domain, the invoke host, and hosts
\* that have the invoke host inside them
Hosts ==
  LET inv == invokeURLHost(ApiID, Region)
  IN {CustomHost, inv, inv \o <<":443">>, inv \o <<".proxy.local">>}

\* raw query strings; <<>> is a URL without "?"
Queries == {<<>>, QueryKV, <<"&">>, <<"a", ";", "b">>}

\* url.Parse of a request target: Path and RawQuery around the first "?"
ParseTarget(target) ==
  LET marks == {i \in 1..Len(target) : target[i] = "?"}
  IN IF marks = {} THEN [path |-> target, rawQuery |-> <<>>]
     ELSE LET q == CHOOSE i \in marks : \A j \in marks : i <= j
          IN [path |-> SubSeq(target, 1, q - 1),
              rawQuery |-> SubSeq(target, q + 1, Len(target))]

\* http.NewRequest(method, "https://" + host + target, body)
NewRequest(method, host, target) ==
  Req(method, host, ParseTarget(target).path, ParseTarget(target).rawQuery,
      BodyOf(<<"{", "}">>), "HTTP/1.1")

PlainReply == [items |-> ItemsPlain, err |-> NilErr]

\* RoundTrip from the path normalisation to the invoke input, on the table
\* built from PlainReply: the lookup path, what the lookup can return, and
\* the PathWithQueryString of the input when there is one
Route(r) ==
  LET path == effectivePath(r)
      resolved == matchResourceID(BuiltFrom[PlainReply].mapping, r.method, path)
  IN [path |-> path,
      resolved |-> resolved,
      sent |-> IF NotFound \in resolved THEN NilStr
               ELSE StrPtr(createInvokeInput(r, ApiID, <<>>, path).input.PathWithQueryString)]

\* a literal path next to two templates that accept it
ItemsExact ==
  << Res(<<"item">>, PathUTpl, {GET, DELETE}),
     Res(<<"lit">>, PathUX, {GET}),
     Res(<<"wild">>, PathWTpl, {GET}) >>

\* the resource lists the lookups are tried on
ResolveReplies ==
  {reply \in GetResourcesReplies : reply.err.nil}
  \cup {[items |-> ItemsExact, err |-> NilErr]}

\* the table mapEndpointResources builds from each of them
ResolveTables == [reply \in ResolveReplies |-> mapEndpointResources(reply).mapping]

ResolveInputs ==
  [fn : {"resolve"}, done : {FALSE},
   reply : ResolveReplies,
   method : Methods, path : Paths, result : {{}}]

RouteInputs ==
  [fn : {"route"}, done : {FALSE},
   method : {GET, PUT}, host : Hosts, path : RequestPaths, query : Queries,
   routed : {Route(NewRequest(GET, CustomHost, <<>>))},
   plain : {Route(NewRequest(GET, CustomHost, <<>>))}]

\* two resources with the same path that share a method
ItemsDup ==
  << Res(<<"first">>, PathU, {PUT, POST}),
     Res(<<"item">>, PathUTpl, {GET}),
     Res(<<"second">>, PathU, {PUT, GET}) >>

BuildInputs ==
  [fn : {"build"}, done : {FALSE},
   reply : ResolveReplies \cup {[items |-> ItemsDup, err |-> NilErr]},
   table : {EmptyMapping}, err : {NilErr}]

MatchInputs ==
  [fn : {"match"}, done : {FALSE},
   method : {GET, PUT}, template : Templates,
   lookup : {GET, PUT}, path : Paths, accepted : {FALSE}]

InitFn ==
  /\ ctor = [kind |-> "none", t |-> FALSE, err |-> NilErr]
  /\ once = "new"
  /\ mapping = EmptyMapping
  /\ initErr = NilErr
  /\ g = [c \in Callers |-> Fresh]
  /\ fetched = <<>>
  /\ calls = [roundTrip |-> 0, getResources |-> 0, testInvoke |-> 0,
              returned |-> 0, responses |-> 0, invokeFailed |-> 0,
              mappings |-> 0]
  /\ \/ probe \in ResolveInputs
     \/ probe \in RouteInputs
     \/ probe \in MatchInputs
     \/ probe \in BuildInputs

\* mappings.matchResourceID(method, path) on the table built from a reply
Resolve ==
  /\ probe.fn = "resolve"
  /\ ~probe.done
  /\ probe' = [probe EXCEPT
                 !.done = TRUE,
                 !.result = matchResourceID(ResolveTables[probe.reply],
                                            probe.method, probe.path)]
  /\ UNCHANGED <<ctor, once, mapping, initErr, g, fetched, calls>>

\* one request routed, with and without its query string
RouteRequest ==
  /\ probe.fn = "route"
  /\ ~probe.done
  /\ LET target == IF probe.query = <<>> THEN probe.path
                   ELSE probe.path \o <<"?">> \o probe.query
     IN probe' = [probe EXCEPT
                    !.done = TRUE,
                    !.routed = Route(NewRequest(probe.method, probe.host, target)),
                    !.plain = Route(NewRequest(probe.method, probe.host, probe.path))]
  /\ UNCHANGED <<ctor, once, mapping, initErr, g, fetched, calls>>

\* the matcher add compiles for (method, template), applied to the key of
\* (lookup, path)
Match ==
  /\ probe.fn = "match"
  /\ ~probe.done
  /\ LET compiled == resourceRegex(endpointKey(probe.method, probe.template))
     IN /\ compiled.err.nil
        /\ probe' = [probe EXCEPT
                       !.done = TRUE,
                       !.accepted = MatchString(compiled.regex,
                                                endpointKey(probe.lookup, probe.path))]
  /\ UNCHANGED <<ctor, once, mapping, initErr, g, fetched, calls>>

\* mapEndpointResources on one resource list
Build ==
  /\ probe.fn = "build"
  /\ ~probe.done
  /\ probe' = [probe EXCEPT
                 !.done = TRUE,
                 !.table = mapEndpointResources(probe.reply).mapping,
                 !.err = mapEndpointResources(probe.reply).err]
  /\ UNCHANGED <<ctor, once, mapping, initErr, g, fetched, calls>>

NextFn ==
  \/ Resolve
  \/ RouteRequest
  \/ Match
  \/ Build

SpecFn == InitFn /\ [][NextFn]_vars

(***************************************************************************)
(* Properties.                                                             *)
(***************************************************************************)
\* the goroutine's RoundTrip call has returned (or panicked)
Finished(c) == g[c].pc = "idle" /\ g[c].ret.kind # "none"

\* the goroutine is past initMappings in its current or last call
PastInit(c) == g[c].pc \in {"ready", "invoking"} \/ Finished(c)

FetchFailed == fetched # <<>> /\ ~fetched[1].err.nil

\* what the lookup of a request can return on the table built from a reply
LookupOn ==
  [reply \in GetResourcesReplies, r \in Requests |->
     matchResourceID(BuiltFrom[reply].mapping, r.method, effectivePath(r))]

\* C1: however many RoundTrip calls an instance serves, and whichever
\* constructor made it, GetResources is called exactly once on it: never
\* twice, and once as soon as a RoundTrip has got past initMappings or the
\* eager constructor has returned.
C1_GetResourcesExactlyOnce ==
  /\ calls.getResources <= 1
  /\ Len(fetched) <= 1
  /\ (ctor.kind = "NewInitializedTransport") => calls.getResources = 1
  /\ \A c \in Callers : PastInit(c) => calls.getResources = 1

C1_Witness ==
  /\ calls.returned = MaxRoundTrips
  /\ calls.returned >= 2
  /\ calls.getResources = 1

\* C2: under every interleaving of concurrent callers GetResources is
\* called at most once, and every caller that is past initMappings holds
\* the same outcome: the error cached in t.initErr, which is the one built
\* from the single reply, next to the table built from that reply.
C2_SameOutcomeForAllCallers ==
  /\ calls.getResources <= 1
  /\ \A c \in Callers : PastInit(c) =>
       /\ Len(fetched) = 1
       /\ g[c].err = initErr
       /\ initErr = BuiltFrom[fetched[1]].err
       /\ mapping = BuiltFrom[fetched[1]].mapping
  /\ \A c, d \in Callers : PastInit(c) /\ PastInit(d) => g[c].err = g[d].err

\* two callers were inside RoundTrip together, one fetched, both are past
\* initMappings
C2_Witness ==
  /\ ctor.kind = "NewTransport"
  /\ \A c \in Callers : g[c].pc \in {"ready", "invoking"}
  /\ calls.getResources = 1

\* C3: no caller is at the mapping lookup or in TestInvokeMethod while the
\* one-time build is unfinished: whenever a caller is there, the Once is
\* done and no caller is still fetching or assigning.
C3_NoUseBeforeBuildCompletes ==
  \A c \in Callers :
    g[c].pc \in {"ready", "invoking"} =>
      /\ once = "done"
      /\ \A d \in Callers : g[d].pc \notin {"fetching", "published"}

\* a caller that had to wait for another caller's build is at the lookup
C3_Witness ==
  \E c, d \in Callers :
    /\ c # d
    /\ g[c].pc = "ready"
    /\ g[d].pc \in {"ready", "invoking"}
    /\ ctor.kind = "NewTransport"

\* C4: after GetResources failed with e, every RoundTrip that returns gives
\* no response and the cached error, whose message is "get resources
\* error: " followed by e's message and which matches e; GetResources is not
\* called again and TestInvokeMethod is never called.
C4_FetchErrorIsSticky ==
  FetchFailed =>
    /\ calls.getResources = 1
    /\ calls.testInvoke = 0
    /\ \A c \in Callers :
         Finished(c) =>
           /\ g[c].ret.kind = "error"
           /\ g[c].ret.resp.nil
           /\ g[c].ret.err = initErr
           /\ g[c].ret.err.msg = <<"get resources error: ">> \o fetched[1].err.msg
           /\ ErrorsIs(g[c].ret.err, fetched[1].err)

C4_Witness ==
  /\ FetchFailed
  /\ calls.returned >= 2
  /\ \A c \in Callers : Finished(c)

\* C5: when GetResources fails with e, NewInitializedTransport returns no
\* transport and an error that matches e and whose message is exactly
\* "get resources error: " followed by e's message.
C5_EagerConstructorError ==
  (ctor.kind = "NewInitializedTransport" /\ FetchFailed) =>
    /\ ~ctor.t
    /\ ErrorsIs(ctor.err, fetched[1].err)
    /\ ctor.err.msg = <<"get resources error: ">> \o fetched[1].err.msg

\* C6: a RoundTrip whose lookup finds no entry returns no response and an
\* error that matches ErrResourceNotFound and matches neither the fetch
\* error nor the invoke error; TestInvokeMethod is not called for it.
C6_NotFoundIsMatchable ==
  \A c \in Callers :
    (Finished(c) /\ g[c].lookup = "miss") =>
      /\ g[c].ret.kind = "error"
      /\ g[c].ret.resp.nil
      /\ g[c].invokes = 0
      /\ ErrorsIs(g[c].ret.err, ErrResourceNotFound)
      /\ ~ErrorsIs(g[c].ret.err, GetResourcesErr)
      /\ ~ErrorsIs(g[c].ret.err, InvokeErr)

\* the body TestInvokeMethod is to receive for a request
ExpectedBody(r) ==
  IF r.body.kind \in {"nil", "NoBody"} THEN NilStr ELSE StrPtr(r.body.text)

\* C7: every RoundTrip whose lookup resolved a resource reaches the
\* TestInvokeMethod call, with the request's exact body text, or with the
\* body unset for a request without a body, and, when the call returns an
\* output with a body, returns the response translated from it.
C7_BodyReachesInvoke ==
  \A c \in Callers :
    (g[c].lookup = "hit" /\ (g[c].pc = "invoking" \/ Finished(c))) =>
      /\ g[c].invokes = 1
      /\ g[c].input.set
      /\ g[c].input.Body = ExpectedBody(g[c].req)
      /\ (Finished(c) /\ g[c].replied /\ g[c].reply.err.nil /\ g[c].reply.out.body.set)
           => g[c].ret = RetResponse(createHTTPResponse(g[c].req, g[c].reply.out))

LogSites == {"invokeInputLogGroup", "invokeOutputLogGroup"}

\* C8: the diagnostic events never fail and never change what RoundTrip
\* does: no RoundTrip call ends inside a logging step.
C8_LoggingNeverFails ==
  \A c \in Callers :
    Finished(c) => ~(g[c].ret.kind = "panic" /\ g[c].ret.site \in LogSites)

\* C9: when TestInvokeMethod returns an error e, RoundTrip returns no
\* response and an error that matches e and whose message is "invoke
\* error: " followed by e's message, after exactly one TestInvokeMethod call
\* for that request; no round trip calls it more than once.
C9_InvokeErrorIsWrapped ==
  /\ \A c \in Callers : g[c].invokes <= 1
  /\ \A c \in Callers :
       (Finished(c) /\ g[c].replied /\ ~g[c].reply.err.nil) =>
         /\ g[c].ret.kind = "error"
         /\ g[c].ret.resp.nil
         /\ g[c].ret.err.msg = <<"invoke error: ">> \o g[c].reply.err.msg
         /\ ErrorsIs(g[c].ret.err, g[c].reply.err)
         /\ g[c].invokes = 1

C9_Witness ==
  \E c \in Callers :
    /\ Finished(c)
    /\ g[c].replied
    /\ g[c].reply.err = InvokeErr
    /\ g[c].ret.kind = "error"

\* C10: every RoundTrip that returned a response made exactly one
\* TestInvokeMethod call, which carried the request's method, the resource
\* identifier the lookup returned for (method, effective path) on the table
\* built from the fetched resources, and the transport's API identifier; the invoke calls made are exactly those of
\* the round trips that returned a response, of those that failed after the
\* call, and of those still in the call.
C10_OneInvokePerResponse ==
  /\ \A c \in Callers :
       (Finished(c) /\ g[c].ret.kind = "response") =>
         /\ g[c].invokes = 1
         /\ g[c].input.HttpMethod = g[c].req.method
         /\ g[c].input.ResourceId = g[c].resourceID
         /\ [id |-> g[c].input.ResourceId, found |-> TRUE]
              \in LookupOn[fetched[1], g[c].req]
         /\ g[c].input.RestApiId = ApiID
  /\ calls.testInvoke =
       calls.responses + calls.invokeFailed
       + Cardinality({c \in Callers : g[c].pc = "invoking"})

C10_Witness ==
  /\ calls.responses = MaxRoundTrips
  /\ calls.responses >= 2
  /\ calls.testInvoke = calls.responses

\* C16: the response RoundTrip returns for an invoke output with status s,
\* headers H and body text b has status code s, headers H, a body that
\* reads as b and a content length equal to the length of b (0 for the
\* empty body), and the protocol version of the request; every output that
\* carries a body is answered with such a response.
C16_ResponseFidelity ==
  \A c \in Callers :
    /\ (Finished(c) /\ g[c].replied /\ g[c].reply.err.nil /\ g[c].reply.out.body.set)
         => g[c].ret.kind = "response"
    /\ (Finished(c) /\ g[c].ret.kind = "response") =>
         LET out == g[c].reply.out
             resp == g[c].ret.resp
         IN /\ ~resp.nil
            /\ resp.StatusCode = out.status
            /\ resp.Header = out.hdr
            /\ resp.Body = out.body.val
            /\ resp.ContentLength = Len(out.body.val)
            /\ resp.Proto = g[c].req.proto

\* an empty body answered on a request that is not HTTP/1.1
C16_Witness ==
  \E c \in Callers :
    /\ Finished(c)
    /\ g[c].ret.kind = "response"
    /\ g[c].reply.out.body = StrPtr(<<>>)
    /\ g[c].ret.resp.ContentLength = 0
    /\ g[c].req.proto = "HTTP/2.0"

\* a path segment of the form {name}
IsPlaceholder(seg) == Len(seg) >= 3 /\ seg[1] = "{" /\ seg[Len(seg)] = "}"

\* the pattern text the claims describe for a key: the key between "^" and
\* "$", every {name} segment of the path replaced by ([^/]+)
RECURSIVE GroupSegments(_)
GroupSegments(segs) ==
  IF segs = <<>> THEN <<>>
  ELSE <<IF IsPlaceholder(Head(segs)) THEN GroupText ELSE Head(segs)>>
       \o GroupSegments(Tail(segs))

ExpectedPattern(method, path) ==
  <<"^">> \o method \o <<"#">> \o Join(GroupSegments(Split(path, "/")), "/") \o <<"$">>

\* the (resource, declared method) pairs of a resource list
Declared(items) ==
  {p \in (1..Len(items)) \X {GET, PUT, POST, DELETE} : p[2] \in items[p[1]].methods}

\* C17: a Mappings() call made after the build succeeded returns one entry
\* for every (resource, declared method) pair of the fetched list and no
\* other: its key is METHOD#path-template, its value the resource id, "->"
\* and the anchored pattern with every {name} segment replaced by ([^/]+);
\* resources without methods give no entry.
C17_MappingsListsDeclaredMethods ==
  \A c \in Callers :
    (g[c].dump.called /\ g[c].dump.built) =>
      LET items == fetched[1].items
          result == g[c].dump.result
      IN /\ DOMAIN result =
              {endpointKey(p[2], items[p[1]].path) : p \in Declared(items)}
         /\ Cardinality(DOMAIN result) = Cardinality(Declared(items))
         /\ \A p \in Declared(items) :
              result[endpointKey(p[2], items[p[1]].path)] =
                items[p[1]].id \o <<"->">> \o ExpectedPattern(p[2], items[p[1]].path)

C17_Witness ==
  \E c \in Callers :
    /\ g[c].dump.called
    /\ g[c].dump.built
    /\ fetched[1].items = ItemsPlain
    /\ Cardinality(DOMAIN g[c].dump.result) = 4

\* C18: once the one-time build has completed nothing changes the Once, the
\* table or the cached error any more: no RoundTrip step, no Mappings call,
\* no further initMappings.
C18_TerminalAfterBuild ==
  [][once = "done" =>
       (once' = "done" /\ mapping' = mapping /\ initErr' = initErr)]_vars

\* after the build, round trips have returned and Mappings has been called
C18_Witness ==
  /\ once = "done"
  /\ calls.returned >= 1
  /\ calls.mappings >= 1
  /\ \E c \in Callers : g[c].dump.called

\* C20: a RoundTrip whose body read fails returns no response and an error
\* that matches the read error and adds context to its message, and makes
\* no TestInvokeMethod call; no such request is ever in the invoke call.
C20_BodyReadFailure ==
  \A c \in Callers :
    g[c].req.body.kind = "broken" =>
      /\ g[c].pc # "invoking"
      /\ g[c].invokes = 0
      /\ (Finished(c) /\ g[c].lookup = "hit") =>
           /\ g[c].ret.kind = "error"
           /\ g[c].ret.resp.nil
           /\ ErrorsIs(g[c].ret.err, ReadErr)
           /\ g[c].ret.err.msg =
                <<"create invoke input error: ", "read request body error: ">>
                \o ReadErr.msg

C20_Witness ==
  \E c \in Callers :
    /\ Finished(c)
    /\ g[c].req.body.kind = "broken"
    /\ g[c].lookup = "hit"
    /\ g[c].ret.kind = "error"

\* path is obtained from the template by putting a non-empty value without
\* a slash in the place of every {name} segment, all else unchanged
IsInstance(template, path) ==
  LET t == Split(template, "/")
      p == Split(path, "/")
  IN /\ Len(t) = Len(p)
     /\ \A i \in 1..Len(t) :
          IF IsPlaceholder(t[i]) THEN p[i] # <<>> ELSE p[i] = t[i]

\* an entry of another resource accepts (method, path)
OtherEntryMatches(items, i, method, path) ==
  \E j \in 1..Len(items) :
    /\ j # i
    /\ method \in items[j].methods
    /\ IsInstance(items[j].path, path)

\* C11: for every resource of the list with template p and methods M and
\* every path that is an instance of p, resolving (m, path) gives the
\* resource's id when m is in M and not-found when m is not in M, provided
\* no entry of another resource matches (m, path).
C11_ResolvesDeclaredMethods ==
  (probe.fn = "resolve" /\ probe.done) =>
    \A i \in 1..Len(probe.reply.items) :
      LET res == probe.reply.items[i]
      IN (/\ IsInstance(res.path, probe.path)
          /\ ~OtherEntryMatches(probe.reply.items, i, probe.method, probe.path))
         => IF probe.method \in res.methods
            THEN probe.result = {[id |-> res.id, found |-> TRUE]}
            ELSE probe.result = {NotFound}

\* GET and DELETE of a member path give the member's id, POST gives not-found
C11_Witness ==
  /\ probe.fn = "resolve"
  /\ probe.done
  /\ probe.reply = PlainReply
  /\ probe.path = PathUX
  /\ \/ probe.method = DELETE /\ probe.result = {[id |-> <<"item">>, found |-> TRUE]}
     \/ probe.method = POST /\ probe.result = {NotFound}

\* the path without its first segment: what follows the second slash, or
\* "/" when there is none
StripStage(path) ==
  LET later == {i \in 2..Len(path) : path[i] = "/"}
  IN IF later = {} THEN <<"/">>
     ELSE SubSeq(path, CHOOSE i \in later : \A j \in later : i <= j, Len(path))

HasPrefix(s, prefix) ==
  Len(prefix) <= Len(s) /\ SubSeq(s, 1, Len(prefix)) = prefix

\* C12: a request whose host equals the invoke host is looked up and sent
\* with its path less the leading stage segment, and resolves as the request
\* for that shorter path on the custom domain does; on the custom domain the
\* path is used as it is.
C12_StagePrefixStripped ==
  (probe.fn = "route" /\ probe.done /\ probe.path # <<>>) =>
    /\ probe.host = invokeURLHost(ApiID, Region) =>
         /\ probe.routed.path = StripStage(probe.path)
         /\ probe.routed.sent.set =>
              HasPrefix(probe.routed.sent.val, StripStage(probe.path))
         /\ probe.routed.resolved =
              Route(NewRequest(probe.method, CustomHost, StripStage(probe.path))).resolved
    /\ probe.host = CustomHost =>
         /\ probe.routed.path = probe.path
         /\ probe.routed.sent.set => HasPrefix(probe.routed.sent.val, probe.path)

\* PUT /x/u on the invoke host reaches the collection at /u
C12_Witness ==
  /\ probe.fn = "route"
  /\ probe.done
  /\ probe.host = invokeURLHost(ApiID, Region)
  /\ probe.method = PUT
  /\ probe.path = <<"/", "x", "/", "u">>
  /\ probe.routed.path = PathU
  /\ probe.routed.resolved = {[id |-> <<"coll">>, found |-> TRUE]}

\* C13: for every request whose host is not the computed invoke host, the
\* path looked up and the path sent are the request path, nothing stripped.
C13_OtherHostsKeepPath ==
  (/\ probe.fn = "route"
   /\ probe.done
   /\ probe.host # invokeURLHost(ApiID, Region)) =>
    /\ probe.routed.path = probe.path
    /\ probe.routed.sent.set => HasPrefix(probe.routed.sent.val, probe.path)

\* C14: a request for path?query resolves to the same identifier, or the
\* same not-found outcome, as the request for the path alone.
C14_QueryDoesNotAffectResolution ==
  (probe.fn = "route" /\ probe.done) =>
    /\ probe.routed.resolved = probe.plain.resolved
    /\ probe.routed.path = probe.plain.path

\* a request with a query string that resolves to a resource
C14_Witness ==
  /\ probe.fn = "route"
  /\ probe.done
  /\ probe.query = QueryKV
  /\ probe.method = PUT
  /\ probe.path = PathU
  /\ probe.routed.resolved = {[id |-> <<"coll">>, found |-> TRUE]}

\* C15: the path-with-query-string sent is the effective path, "?" and the
\* raw query exactly when the raw query is not empty, and the effective
\* path alone when it is empty.
C15_QueryAppendedWhenNonEmpty ==
  (probe.fn = "route" /\ probe.done /\ probe.routed.sent.set) =>
    probe.routed.sent.val =
      IF probe.query # <<>>
      THEN probe.routed.path \o <<"?">> \o probe.query
      ELSE probe.routed.path

\* C19: the matcher compiled for METHOD#template accepts a lookup key if
\* and only if the key has the same method and a path that is an instance
\* of the template: no extra leading or trailing segments, no placeholder
\* value with a slash, no other method.
C19_MatcherAcceptsExactlyInstances ==
  (probe.fn = "match" /\ probe.done) =>
    (probe.accepted <=>
       (probe.lookup = probe.method /\ IsInstance(probe.template, probe.path)))

\* a key accepted through a placeholder, and a key refused for a value
\* that holds a slash
C19_Witness ==
  /\ probe.fn = "match"
  /\ probe.done
  /\ probe.template = PathUTpl
  /\ probe.lookup = probe.method
  /\ \/ probe.path = PathUX /\ probe.accepted
     \/ probe.path = <<"/", "u", "/", "/">> /\ ~probe.accepted

\* C21: no RoundTrip call crashes the process: for every request and every
\* provider reply, an invoke output without a body pointer included, the
\* call returns a response or an error to its caller.
C21_RoundTripNeverCrashes ==
  \A c \in Callers :
    Finished(c) => g[c].ret.kind \in {"response", "error"}

\* the keys of a table that equal the lookup key or whose matcher accepts it
Accepting(table, method, path) ==
  {k \in DOMAIN table :
     \/ k = endpointKey(method, path)
     \/ MatchString(table[k].regex, endpointKey(method, path))}

\* C22: when the table holds an entry whose key is literally METHOD#path
\* and templated entries that accept METHOD#path as well, the lookup returns
\* the id of the literal entry, whatever the order the table is visited in.
C22_ExactKeyFirst ==
  (probe.fn = "resolve" /\ probe.done) =>
    LET table == ResolveTables[probe.reply]
        key == endpointKey(probe.method, probe.path)
    IN (/\ key \in DOMAIN table
        /\ Accepting(table, probe.method, probe.path) # {key})
       => probe.result = {[id |-> table[key].id, found |-> TRUE]}

\* GET /u/x with the literal /u/x and the templates /u/{v} and /{w}/x
C22_Witness ==
  /\ probe.fn = "resolve"
  /\ probe.done
  /\ probe.reply.items = ItemsExact
  /\ probe.method = GET
  /\ probe.path = PathUX
  /\ Cardinality(Accepting(ResolveTables[probe.reply], GET, PathUX)) = 3
  /\ probe.result = {[id |-> <<"lit">>, found |-> TRUE]}

\* C23: the lookup returns an id only if it is the id of an entry whose key
\* equals or whose matcher accepts METHOD#path; it reports not-found if and
\* only if there is no such entry; and when several templated entries accept
\* the key and none is the exact key, the id of each of them can be returned.
C23_SoundAndCompleteUnderOverlap ==
  (probe.fn = "resolve" /\ probe.done) =>
    LET table == ResolveTables[probe.reply]
        key == endpointKey(probe.method, probe.path)
        accepting == Accepting(table, probe.method, probe.path)
    IN /\ probe.result # {}
       /\ \A x \in probe.result :
            x.found => \E k \in accepting : table[k].id = x.id
       /\ (NotFound \in probe.result) <=> (accepting = {})
       /\ (accepting = {}) => probe.result = {NotFound}
       /\ (key \notin DOMAIN table) =>
            \A k \in accepting : [id |-> table[k].id, found |-> TRUE] \in probe.result

\* GET /u/x on /u/{v} and /{w}/x: either id can come back
C23_Witness ==
  /\ probe.fn = "resolve"
  /\ probe.done
  /\ probe.reply.items = ItemsOverlap
  /\ probe.method = GET
  /\ probe.path = PathUX
  /\ probe.result = {[id |-> <<"item">>, found |-> TRUE],
                     [id |-> <<"wild">>, found |-> TRUE]}

\* the keys a resource list gives rise to
KeysOf(items) == {endpointKey(p[2], items[p[1]].path) : p \in Declared(items)}

\* the last resource of the list that gives rise to the key
LastWith(items, key) ==
  LET with == {p[1] : p \in {q \in Declared(items) :
                               endpointKey(q[2], items[q[1]].path) = key}}
  IN CHOOSE i \in with : \A j \in with : j <= i

\* C25: when a key METHOD#path occurs more than once during the build, the
\* table holds one entry for it, with the id of the resource added last;
\* the table has as many entries as there are distinct keys.
C25_LastDuplicateWins ==
  (probe.fn = "build" /\ probe.done) =>
    LET items == probe.reply.items
    IN /\ probe.err.nil
       /\ DOMAIN probe.table = KeysOf(items)
       /\ Cardinality(DOMAIN probe.table) = Cardinality(KeysOf(items))
       /\ \A key \in KeysOf(items) :
            probe.table[key].id = items[LastWith(items, key)].id

\* PUT /u declared by two resources: four keys from five declarations
C25_Witness ==
  /\ probe.fn = "build"
  /\ probe.done
  /\ probe.reply.items = ItemsDup
  /\ Cardinality(Declared(ItemsDup)) = 5
  /\ Cardinality(DOMAIN probe.table) = 4
  /\ probe.table[endpointKey(PUT, PathU)].id = <<"second">>

\* C24: a reader never observes a partially filled table: every Mappings()
\* call, before, during or after the one-time build, returns the empty
\* table or the complete table of the fetched resource list, the empty one
\* after a failed build; every lookup of RoundTrip is made on the complete
\* table.
C24_NoPartialTable ==
  \A c \in Callers :
    /\ g[c].dump.called =>
         \/ g[c].dump.result = MappingsResult(EmptyMapping)
         \/ /\ fetched # <<>>
            /\ fetched[1].err.nil
            /\ g[c].dump.result = MappingsResult(BuiltFrom[fetched[1]].mapping)
    /\ g[c].lookup # "none" =>
         /\ fetched # <<>>
         /\ mapping = BuiltFrom[fetched[1]].mapping

\* every RoundTrip call that has started comes to an end unless a panic ends
\* the process first; callers waiting in t.once.Do are released when the
\* build is over
EveryCallEnds ==
  \A c \in Callers : (g[c].pc # "idle") ~> (Finished(c) \/ Crashed)

\* C26: if every GetResources and TestInvokeMethod call returns and the
\* scheduler is fair, every RoundTrip call on a shared instance eventually
\* returns a response or an error, the callers that waited for the build in
\* progress included, whether the build succeeds or fails.
C26_EveryCallReturns ==
  \A c \in Callers :
    (g[c].pc # "idle") ~>
      (Finished(c) /\ g[c].ret.kind \in {"response", "error"})

====
